---- MODULE Spec2Model ----
(***************************************************************************)
(* Model of mass_set_signatures.py: the retrying transport                 *)
(* (backoff_request), the API wrappers (get_user, get_sender_info,         *)
(* post_sender_info), the ownership predicate (user_owns_email), the       *)
(* signature merger (upsert_sign) and the per-row loop of main().          *)
(*                                                                         *)
(* Strings are sequences of code points, so that str.strip, str.lower,     *)
(* str.replace and sorted() are computed rather than assumed.  A Python    *)
(* dict is a function whose DOMAIN is the set of keys present.             *)
(***************************************************************************)
EXTENDS Naturals, Integers, Sequences, FiniteSets, TLC

\* ------------------------------------------------------------------ bounds
MaxRows  == 2      \* rows in the CSV
MaxSigns == 2      \* records in an existing signature list (merger inputs)
MaxApply == 2      \* successive applications of upsert_sign
MaxRuns  == 2      \* runs of the same row against the remote store

\* ------------------------------------------------------------ str helpers
\* str.strip() removes leading and trailing whitespace (space, \t, \n, \r)
IsSpace(c) == c \in {9, 10, 13, 32}

RECURSIVE LStrip(_)
LStrip(s) == IF s = <<>> THEN <<>>
             ELSE IF IsSpace(Head(s)) THEN LStrip(Tail(s)) ELSE s

RECURSIVE RStrip(_)
RStrip(s) == IF s = <<>> THEN <<>>
             ELSE IF IsSpace(s[Len(s)]) THEN RStrip(SubSeq(s, 1, Len(s) - 1)) ELSE s

\* the cell is used as read, without .strip()
Strip_missing(s) == s

Strip(s) == RStrip(LStrip(s))

\* str.lower() on ASCII letters
LowerCh(c) == IF c \in 65..90 THEN c + 32 ELSE c
Lower(s) == [i \in 1..Len(s) |-> LowerCh(s[i])]

IsPrefix(p, s) == Len(p) <= Len(s) /\ SubSeq(s, 1, Len(p)) = p

\* str.replace(old, new): leftmost non-overlapping occurrences
RECURSIVE Replace(_, _, _)
Replace(s, old, new) ==
    IF s = <<>> THEN <<>>
    ELSE IF IsPrefix(old, s)
         THEN new \o Replace(SubSeq(s, Len(old) + 1, Len(s)), old, new)
         ELSE <<Head(s)>> \o Replace(Tail(s), old, new)

\* lexicographic order on strings, as Python compares str
RECURSIVE StrLess(_, _)
StrLess(a, b) ==
    IF b = <<>> THEN FALSE
    ELSE IF a = <<>> THEN TRUE
    ELSE IF Head(a) # Head(b) THEN Head(a) < Head(b)
    ELSE StrLess(Tail(a), Tail(b))

RECURSIVE Insert(_, _)
Insert(x, l) == IF l = <<>> THEN <<x>>
                ELSE IF StrLess(Head(l), x) THEN <<Head(l)>> \o Insert(x, Tail(l))
                ELSE <<x>> \o l

\* sorted(list of str)
RECURSIVE sorted(_)
sorted(l) == IF l = <<>> THEN <<>> ELSE Insert(Head(l), sorted(Tail(l)))

\* --------------------------------------------------------------- literals
BR      == <<60, 98, 114, 62>>          \* "<br>"
BSLASHN == <<92, 110>>                  \* the two characters \ and n
NEWLINE == <<10>>                       \* "\n"
S_a     == <<97>>                       \* address "a"
S_A     == <<65>>                       \* the same address in upper case
S_b     == <<98>>                       \* address "b"
S_en    == <<101, 110>>                 \* "en"
S_ru    == <<114, 117>>                 \* "ru"
S_old   == <<111>>                      \* text of a record already stored
S_new   == <<72>>                       \* text written by the merger inputs

\* Optional[str] None: every use in the source is a truthiness test, which
\* None and "" answer alike, so None is the empty string.
None == <<>>
Truthy(s) == s # <<>>

\* ----------------------------------------------------------- upsert_sign
Has(d, k) == k \in DOMAIN d

\* s.get("emails", [])
GetEmails(s) == IF Has(s, "emails") THEN s["emails"] ELSE <<>>

\* s.get("lang") == lang
LangIs(s, lang) == Has(s, "lang") /\ s["lang"] = lang

\* the entry replaces the stored record instead of being merged into it
Update_replace(d, e) == e

\* dict.update
Update(d, e) == [k \in (DOMAIN d) \cup (DOMAIN e) |-> IF k \in DOMAIN e THEN e[k] ELSE d[k]]

\* the clearing loop stops after the first record of the lang
ClearDefaults_firstOnly(signs, lang, make_default) ==
    LET same == {i \in 1..Len(signs) : LangIs(signs[i], lang)}
    IN [i \in 1..Len(signs) |->
          IF make_default /\ i \in same /\ (\A j \in same : i <= j)
          THEN Update(signs[i], [isDefault |-> FALSE])
          ELSE signs[i]]

\* lines 145-148
ClearDefaults(signs, lang, make_default) ==
    [i \in 1..Len(signs) |->
        IF make_default /\ LangIs(signs[i], lang)
        THEN Update(signs[i], [isDefault |-> FALSE])
        ELSE signs[i]]

want_emails(email) == IF Truthy(email) THEN sorted(<<email>>) ELSE <<>>

Matches(s, lang, email) == LangIs(s, lang) /\ sorted(GetEmails(s)) = want_emails(email)

\* the search never finds a record to update
target_idx_never(signs, lang, email) == 0

\* lines 151-159: first matching index, 0 for None
target_idx(signs, lang, email) ==
    LET hits == {i \in 1..Len(signs) : Matches(signs[i], lang, email)}
    IN IF hits = {} THEN 0 ELSE CHOOSE i \in hits : \A j \in hits : i <= j

\* the emails key is never written
new_entry_noEmails(lang, email, text, make_default) ==
    [text |-> text, lang |-> lang, isDefault |-> make_default]

\* lines 161-163
new_entry(lang, email, text, make_default) ==
    IF Truthy(email)
    THEN [text |-> text, lang |-> lang, isDefault |-> make_default, emails |-> <<email>>]
    ELSE [text |-> text, lang |-> lang, isDefault |-> make_default]

upsert_sign(signs, lang, email, text, make_default) ==
    LET cleared == ClearDefaults(signs, lang, make_default)
        t       == target_idx(cleared, lang, email)
        e       == new_entry(lang, email, text, make_default)
    IN IF t = 0 THEN Append(cleared, e)
       ELSE [cleared EXCEPT ![t] = Update(cleared[t], e)]

\* normalize_signature
normalize_signature(text, convert_newlines) ==
    IF convert_newlines THEN Replace(Replace(text, BSLASHN, BR), NEWLINE, BR) ELSE text

\* -------------------------------------------------------- user_owns_email
\* JSON values carry their Python type: isinstance() is a test of the tag.
JStr(s)  == [t |-> "str",  v |-> s]
JList(l) == [t |-> "list", v |-> l]
JDict(d) == [t |-> "dict", v |-> d]
JNone    == [t |-> "none", v |-> <<>>]

\* (d.get(k) or "") for a str-or-None field
GetOrEmpty(d, k) == IF Has(d, k) /\ d[k].t = "str" THEN d[k].v ELSE <<>>

\* lines 113-120: one element of an alias collection
ElemMatches(e, needle) ==
    \/ e.t = "str"  /\ Lower(Strip(e.v)) = needle
    \/ e.t = "dict" /\ Lower(Strip(GetOrEmpty(e.v, "address"))) = needle

AliasKeys == {"aliases", "emails", "alternateEmails"}

user_owns_email(user, email) ==
    IF ~Truthy(email) THEN FALSE
    ELSE LET needle  == Lower(Strip(email))
             primary == Lower(Strip(GetOrEmpty(user, "email")))
         IN \/ Truthy(primary) /\ primary = needle
            \/ \E key \in AliasKeys :
                  /\ Has(user, key)
                  /\ user[key].t = "list"
                  /\ \E i \in 1..Len(user[key].v) : ElemMatches(user[key].v[i], needle)

\* ------------------------------------------------------ inputs of the run
\* status codes the remote side answers with
Statuses == {200, 204, 403, 404, 429, 500, 502, 503, 504}

\* CSV cells: " " and "u"; "" and " A"; " " and "\nH<LF>H "; "", " " and " EN"
UserIds == {<<32>>, <<117>>}
Emails  == {<<>>, <<32, 65>>}
Texts   == {<<32>>, <<92, 110, 72, 10, 72, 32>>}
Langs   == {<<>>, <<32>>, <<32, 69, 78>>}
Rows    == [userId : UserIds, email : Emails, signature : Texts, lang : Langs]

\* user cards returned by the directory
Users ==
    { [email |-> JStr(<<65, 32>>)],
      [email |-> JStr(S_b)],
      [email |-> JNone, aliases |-> JList(<<JStr(S_b), JStr(S_a)>>)],
      [email |-> JStr(S_b),
       emails |-> JList(<<JDict([type |-> JStr(S_a)]), JDict([address |-> JStr(S_A)])>>)],
      [alternateEmails |-> JStr(S_a)] }

\* one stored signature record
Sign(text, lang, isDefault, emails) ==
    [text |-> text, lang |-> lang, isDefault |-> isDefault, emails |-> emails]

\* sender_info documents returned by the settings fetch
SenderInfos ==
    { [signs |-> <<>>, signPosition |-> "under"],
      [signs |-> <<Sign(S_old, S_en, TRUE, <<S_b>>)>>],
      [signs |-> <<Sign(S_old, S_en, TRUE, <<S_A>>),
                   [text |-> S_old, lang |-> S_ru, isDefault |-> TRUE]>>,
       signPosition |-> ""],
      [signPosition |-> "bottom"] }

Configs == [strict_email : BOOLEAN, merge : BOOLEAN, dry_run : BOOLEAN,
            convert_newlines : BOOLEAN, position : {"bottom", "under"}]

default_lang == S_ru
MaxAttempts  == 6
\* 404 is retried as well
retriable_with404 == {404, 429, 500, 502, 503, 504}
retriable    == {429, 500, 502, 503, 504}

\* min(30.0, 0.5 * 2 ** (attempt - 1)), in milliseconds
wait(k) == IF 500 * (2 ^ (k - 1)) < 30000 THEN 500 * (2 ^ (k - 1)) ELSE 30000

\* only server errors raise
RaisesHTTPError_5xxOnly(status) == status >= 500 /\ status < 600

\* Response.raise_for_status(): HTTPError for 4xx and 5xx
RaisesHTTPError(status) == status >= 400 /\ status < 600

NoBody == [signs |-> <<>>, signPosition |-> "none"]
NoMerger == [signs |-> <<>>, lang |-> <<>>, email |-> <<>>, text |-> <<>>,
             make_default |-> FALSE, applied |-> 0, first |-> <<>>, prev |-> <<>>]
NoOwns   == [user |-> [email |-> JNone], email |-> <<>>, result |-> FALSE, called |-> FALSE]
NoRerun  == [stored |-> FALSE, doc |-> NoBody, identity |-> [email |-> JNone],
             found |-> FALSE, runs |-> 0, succeeded |-> FALSE, after1 |-> NoBody]

\* ------------------------------------------------------------------ state
VARIABLES
    cfg,            \* args
    nrows,          \* len(rows)
    idx,            \* loop index of main, 1-based
    pc,             \* position of the single thread of control
    user_id, csv_email, text, lang,     \* locals of the current row
    email_to_bind,  \* local of the current row
    body,           \* request body computed for the current row
    call,           \* which wrapper is inside backoff_request
    attempt, resp, last, waits,         \* locals of backoff_request
    ret,            \* value returned by backoff_request
    verdict,        \* what the identity lookup of the row established
    fetched,        \* final status of the settings fetch of the row, 0 if none
    calls,          \* logical network calls issued for the row, in order
    nsleeps,        \* time.sleep(interval) calls made for the row
    tags,           \* tags of the lines printed for the row
    outcome,        \* outcome of the row, "NONE" until determined
    outcomes,       \* outcomes of the rows already left
    m,              \* inputs and result of the merger under repeated application
    remote_pos,     \* signPosition the remote store held at the fetch, "" if none
    o,              \* inputs and result of one call of user_owns_email
    r               \* the remote store and the runs of one row against it

vars == <<cfg, nrows, idx, pc, user_id, csv_email, text, lang, email_to_bind, body,
          call, attempt, resp, last, waits, ret, verdict, fetched, calls, nsleeps,
          tags, outcome, outcomes, m, remote_pos, o, r>>

rowLocals == <<user_id, csv_email, text, lang>>
transport == <<call, attempt, resp, last, waits, ret>>
config    == <<cfg, nrows, m, o, r>>

Init ==
    /\ cfg \in Configs
    /\ nrows \in 1..MaxRows
    /\ idx = 1
    /\ pc = "loop"
    /\ user_id = <<>> /\ csv_email = <<>> /\ text = <<>> /\ lang = <<>>
    /\ email_to_bind = None
    /\ body = NoBody
    /\ call = "none" /\ attempt = 0 /\ resp = 0 /\ last = 0 /\ waits = <<>> /\ ret = 0
    /\ verdict = "nolookup"
    /\ fetched = 0
    /\ remote_pos = ""
    /\ calls = <<>>
    /\ nsleeps = 0
    /\ tags = <<>>
    /\ outcome = "NONE"
    /\ outcomes = <<>>
    /\ m = NoMerger
    /\ o = NoOwns
    /\ r = NoRerun

\* ------------------------------------------------------- backoff_request
\* entry of backoff_request from one of the three wrappers
Enter(kind) ==
    /\ call' = kind
    /\ calls' = Append(calls, kind)
    /\ attempt' = 1 /\ resp' = 0 /\ last' = 0 /\ waits' = <<>> /\ ret' = 0
    /\ pc' = "request"

\* the locals of backoff_request go out of scope
Leave == call' = "none" /\ attempt' = 0 /\ resp' = 0 /\ last' = 0 /\ waits' = <<>> /\ ret' = 0

\* line 69-70, 75: one HTTP attempt that is answered
Request ==
    /\ pc = "request"
    /\ \E s \in Statuses :
          /\ resp' = s
          /\ IF s \in retriable
             THEN pc' = "backoff" /\ ret' = ret
             ELSE pc' = "returned" /\ ret' = s
    /\ UNCHANGED <<config, idx, rowLocals, email_to_bind, body, call, attempt, last, waits,
                   verdict, fetched, remote_pos, calls, nsleeps, tags, outcome, outcomes>>

\* line 69: session.request raises (timeout, connection error); nothing on the
\* way up catches it (main catches requests.HTTPError only)
RequestRaises ==
    /\ pc = "request"
    /\ pc' = "crashed"
    /\ UNCHANGED <<config, idx, rowLocals, email_to_bind, body, transport,
                   verdict, fetched, remote_pos, calls, nsleeps, tags, outcome, outcomes>>

\* lines 71-74, then the loop head or line 76
Backoff ==
    /\ pc = "backoff"
    /\ waits' = Append(waits, wait(attempt))
    /\ last' = resp
    /\ IF attempt < MaxAttempts
       THEN attempt' = attempt + 1 /\ pc' = "request" /\ ret' = ret
       ELSE attempt' = attempt /\ pc' = "returned"
            /\ ret' = IF last' # 0 THEN last' ELSE resp
    /\ UNCHANGED <<config, idx, rowLocals, email_to_bind, body, call, resp,
                   verdict, fetched, remote_pos, calls, nsleeps, tags, outcome, outcomes>>

\* ------------------------------------------------------------------- main
\* line 206
RowLang(cell) ==
    LET l == Lower(Strip(IF Truthy(cell) THEN cell ELSE default_lang))
    IN IF Truthy(l) THEN l ELSE default_lang

\* lines 202-210: the loop takes the next row
StartRow ==
    /\ pc = "loop"
    /\ idx <= nrows
    /\ \E row \in Rows :
          /\ user_id'   = Strip(row.userId)
          /\ csv_email' = Strip(row.email)
          /\ text'      = Strip(row.signature)
          /\ lang'      = RowLang(row.lang)
    /\ email_to_bind' = None
    /\ body' = NoBody
    /\ verdict' = "nolookup"
    /\ fetched' = 0
    /\ remote_pos' = ""
    /\ calls' = <<>>
    /\ nsleeps' = 0
    /\ IF ~Truthy(user_id') \/ ~Truthy(text')
       THEN /\ tags' = <<"SKIP">>
            /\ outcome' = "SKIPPED"
            /\ outcomes' = Append(outcomes, "SKIPPED")
            /\ idx' = idx + 1
            /\ pc' = "loop"
       ELSE /\ tags' = <<>>
            /\ outcome' = "NONE"
            /\ outcomes' = outcomes
            /\ idx' = idx
            /\ pc' = IF Truthy(csv_email') THEN "verify" ELSE "build"
    /\ UNCHANGED <<config, transport>>

\* the row list is exhausted
Finish ==
    /\ pc = "loop"
    /\ idx > nrows
    /\ pc' = "done"
    /\ UNCHANGED <<config, idx, rowLocals, email_to_bind, body, transport,
                   verdict, fetched, remote_pos, calls, nsleeps, tags, outcome, outcomes>>

\* line 215 -> line 87
CallGetUser ==
    /\ pc = "verify"
    /\ Enter("get_user")
    /\ UNCHANGED <<config, idx, rowLocals, email_to_bind, body,
                   verdict, fetched, remote_pos, nsleeps, tags, outcome, outcomes>>

\* lines 216-223: user is None
UserAbsent ==
    /\ verdict' = "absent"
    /\ email_to_bind' = email_to_bind
    /\ tags' = Append(tags, "FAIL")
    /\ IF cfg.strict_email
       THEN outcome' = "FAILED" /\ pc' = "throttle"
       ELSE outcome' = outcome /\ pc' = "build"

\* the strict_email flag is not consulted: a non-owned email only warns
UserFound_ignoreStrict(user) ==
    IF user_owns_email(user, csv_email)
    THEN /\ verdict' = "owned"
         /\ email_to_bind' = csv_email
         /\ tags' = tags
         /\ outcome' = outcome
         /\ pc' = "build"
    ELSE /\ verdict' = "notowned"
         /\ email_to_bind' = email_to_bind
         /\ tags' = Append(tags, "WARN")
         /\ outcome' = outcome
         /\ pc' = "build"

\* lines 224-234: a user card came back
UserFound(user) ==
    IF user_owns_email(user, csv_email)
    THEN /\ verdict' = "owned"
         /\ email_to_bind' = csv_email
         /\ tags' = tags
         /\ outcome' = outcome
         /\ pc' = "build"
    ELSE /\ verdict' = "notowned"
         /\ email_to_bind' = email_to_bind
         /\ tags' = Append(tags, IF cfg.strict_email THEN "FAIL" ELSE "WARN")
         /\ IF cfg.strict_email
            THEN outcome' = "FAILED" /\ pc' = "throttle"
            ELSE outcome' = outcome /\ pc' = "build"

\* lines 88-91 and 216-234: get_user returns into main
GetUserReturn ==
    /\ pc = "returned"
    /\ call = "get_user"
    /\ ret = 404 \/ ~RaisesHTTPError(ret)
    /\ IF ret = 404 THEN UserAbsent ELSE \E user \in Users : UserFound(user)
    /\ Leave
    /\ UNCHANGED <<config, idx, rowLocals, body, fetched, remote_pos, calls, nsleeps, outcomes>>

\* line 90: raise_for_status raises HTTPError, which main does not catch here;
\* line 91: r.json() raises on a body that is not JSON (an answer other than 200)
GetUserRaises ==
    /\ pc = "returned"
    /\ call = "get_user"
    /\ ret # 404
    /\ RaisesHTTPError(ret) \/ ret # 200
    /\ pc' = "crashed"
    /\ UNCHANGED <<config, idx, rowLocals, email_to_bind, body, transport,
                   verdict, fetched, remote_pos, calls, nsleeps, tags, outcome, outcomes>>

\* the settings fetch is issued whatever the mode
CallGetSenderInfo_unguarded ==
    /\ pc = "build"
    /\ Enter("get_sender_info")
    /\ UNCHANGED <<config, idx, rowLocals, email_to_bind, body,
                   verdict, fetched, remote_pos, nsleeps, tags, outcome, outcomes>>

\* lines 238-241 -> line 126
CallGetSenderInfo ==
    /\ pc = "build"
    /\ cfg.merge
    /\ Enter("get_sender_info")
    /\ UNCHANGED <<config, idx, rowLocals, email_to_bind, body,
                   verdict, fetched, remote_pos, nsleeps, tags, outcome, outcomes>>

\* line 128: the document get_sender_info substitutes for a 404
NoSettings == [signs |-> <<>>, signPosition |-> "bottom"]

\* lines 247-249
MergeBody(current) ==
    LET signs == IF Has(current, "signs") THEN current["signs"] ELSE <<>>
        pos   == IF Has(current, "signPosition") /\ current["signPosition"] # ""
                 THEN current["signPosition"] ELSE cfg.position
    IN [signs |-> upsert_sign(signs, lang, email_to_bind,
                              normalize_signature(text, cfg.convert_newlines), TRUE),
        signPosition |-> pos]

\* lines 127-130 and 247-249: get_sender_info returns a document
GetSenderInfoReturn ==
    /\ pc = "returned"
    /\ call = "get_sender_info"
    /\ ret = 404 \/ ~RaisesHTTPError(ret)
    /\ fetched' = ret
    /\ IF ret = 404
       THEN body' = MergeBody(NoSettings) /\ remote_pos' = ""
       ELSE \E current \in SenderInfos :
               /\ body' = MergeBody(current)
               /\ remote_pos' = IF Has(current, "signPosition")
                                THEN current["signPosition"] ELSE ""
    /\ pc' = "submit"
    /\ Leave
    /\ UNCHANGED <<config, idx, rowLocals, email_to_bind, verdict, calls, nsleeps,
                   tags, outcome, outcomes>>

\* line 129 raises HTTPError, lines 242-245 catch it
GetSenderInfoFails ==
    /\ pc = "returned"
    /\ call = "get_sender_info"
    /\ ret # 404
    /\ RaisesHTTPError(ret)
    /\ fetched' = ret
    /\ remote_pos' = remote_pos
    /\ tags' = Append(tags, "FAIL")
    /\ outcome' = "FAILED"
    /\ pc' = "throttle"
    /\ Leave
    /\ UNCHANGED <<config, idx, rowLocals, email_to_bind, body, verdict, calls, nsleeps,
                   outcomes>>

\* line 130: r.json() raises on a body that is not JSON (an answer other than
\* 200); the exception is not an HTTPError, so line 242 does not catch it
GetSenderInfoRaises ==
    /\ pc = "returned"
    /\ call = "get_sender_info"
    /\ ret # 404 /\ ret # 200
    /\ ~RaisesHTTPError(ret)
    /\ fetched' = ret
    /\ remote_pos' = remote_pos
    /\ pc' = "crashed"
    /\ UNCHANGED <<config, idx, rowLocals, email_to_bind, body, transport,
                   verdict, calls, nsleeps, tags, outcome, outcomes>>

\* the CSV email is bound whether or not it was verified
ReplaceBody_bindCsvEmail ==
    LET t   == normalize_signature(text, cfg.convert_newlines)
        one == IF Truthy(csv_email)
               THEN [text |-> t, lang |-> lang, isDefault |-> TRUE, emails |-> <<csv_email>>]
               ELSE [text |-> t, lang |-> lang, isDefault |-> TRUE]
    IN [signs |-> <<one>>, signPosition |-> cfg.position]

\* the position is hard-wired instead of taken from args
ReplaceBody_bottom ==
    LET t   == normalize_signature(text, cfg.convert_newlines)
        one == IF Truthy(email_to_bind)
               THEN [text |-> t, lang |-> lang, isDefault |-> TRUE, emails |-> <<email_to_bind>>]
               ELSE [text |-> t, lang |-> lang, isDefault |-> TRUE]
    IN [signs |-> <<one>>, signPosition |-> "bottom"]

\* lines 250-255
ReplaceBody ==
    LET t   == normalize_signature(text, cfg.convert_newlines)
        one == IF Truthy(email_to_bind)
               THEN [text |-> t, lang |-> lang, isDefault |-> TRUE, emails |-> <<email_to_bind>>]
               ELSE [text |-> t, lang |-> lang, isDefault |-> TRUE]
    IN [signs |-> <<one>>, signPosition |-> cfg.position]

BuildReplace ==
    /\ pc = "build"
    /\ ~cfg.merge
    /\ body' = ReplaceBody
    /\ pc' = "submit"
    /\ UNCHANGED <<config, idx, rowLocals, email_to_bind, transport,
                   verdict, fetched, remote_pos, calls, nsleeps, tags, outcome, outcomes>>

\* lines 257-258
DryRun ==
    /\ pc = "submit"
    /\ cfg.dry_run
    /\ tags' = Append(tags, "DRY")
    /\ outcome' = "DRY"
    /\ pc' = "throttle"
    /\ UNCHANGED <<config, idx, rowLocals, email_to_bind, body, transport,
                   verdict, fetched, remote_pos, calls, nsleeps, outcomes>>

\* the dry_run flag is not consulted before the POST
CallPost_unguarded ==
    /\ pc = "submit"
    /\ Enter("post")
    /\ UNCHANGED <<config, idx, rowLocals, email_to_bind, body,
                   verdict, fetched, remote_pos, nsleeps, tags, outcome, outcomes>>

\* line 260 -> line 134
CallPost ==
    /\ pc = "submit"
    /\ ~cfg.dry_run
    /\ Enter("post")
    /\ UNCHANGED <<config, idx, rowLocals, email_to_bind, body,
                   verdict, fetched, remote_pos, nsleeps, tags, outcome, outcomes>>

\* every 2xx answer counts as success
PostReturn_any2xx ==
    /\ pc = "returned"
    /\ call = "post"
    /\ IF ret >= 200 /\ ret < 300
       THEN tags' = Append(tags, "OK") /\ outcome' = "OK"
       ELSE tags' = Append(tags, "FAIL") /\ outcome' = "FAILED"
    /\ pc' = "throttle"
    /\ Leave
    /\ UNCHANGED <<config, idx, rowLocals, email_to_bind, body, verdict, fetched, remote_pos,
                   calls, nsleeps, outcomes>>

\* lines 261-264
PostReturn ==
    /\ pc = "returned"
    /\ call = "post"
    /\ IF ret = 200
       THEN tags' = Append(tags, "OK") /\ outcome' = "OK"
       ELSE tags' = Append(tags, "FAIL") /\ outcome' = "FAILED"
    /\ pc' = "throttle"
    /\ Leave
    /\ UNCHANGED <<config, idx, rowLocals, email_to_bind, body, verdict, fetched, remote_pos,
                   calls, nsleeps, outcomes>>

\* lines 220-221, 231-232, 244-245, 266: time.sleep(interval), next row
Throttle ==
    /\ pc = "throttle"
    /\ nsleeps' = nsleeps + 1
    /\ outcomes' = Append(outcomes, outcome)
    /\ idx' = idx + 1
    /\ pc' = "loop"
    /\ UNCHANGED <<config, rowLocals, email_to_bind, body, transport,
                   verdict, fetched, remote_pos, calls, tags, outcome>>

Next ==
    \/ StartRow \/ Finish
    \/ Request \/ RequestRaises \/ Backoff
    \/ CallGetUser \/ GetUserReturn \/ GetUserRaises
    \/ CallGetSenderInfo \/ GetSenderInfoReturn \/ GetSenderInfoFails \/ GetSenderInfoRaises
    \/ BuildReplace \/ DryRun \/ CallPost \/ PostReturn
    \/ Throttle

Spec == Init /\ [][Next]_vars

\* ------------------------------------------- the merger applied repeatedly
\* stored records the merger may meet: with and without an emails key, with
\* an empty, a single and a two-element binding, and one without a lang
EmailLists == {<<>>, <<S_a>>, <<S_b>>, <<S_b, S_a>>}

SignRecs ==
    {Sign(S_old, l, d, e) : l \in {S_en, S_ru}, d \in BOOLEAN, e \in EmailLists}
    \cup {[text |-> S_old, lang |-> l, isDefault |-> d] : l \in {S_en, S_ru}, d \in BOOLEAN}
    \cup {[text |-> S_old, isDefault |-> TRUE]}
    \cup {[text |-> S_old, lang |-> l, isDefault |-> TRUE, signId |-> S_b] : l \in {S_en, S_ru}}

SignLists == UNION {[1..n -> SignRecs] : n \in 0..MaxSigns}

InitMerger ==
    /\ cfg = [strict_email |-> FALSE, merge |-> TRUE, dry_run |-> FALSE,
              convert_newlines |-> FALSE, position |-> "bottom"]
    /\ nrows = 1
    /\ idx = 1
    /\ pc = "merger"
    /\ user_id = <<>> /\ csv_email = <<>> /\ text = <<>> /\ lang = <<>>
    /\ email_to_bind = None
    /\ body = NoBody
    /\ call = "none" /\ attempt = 0 /\ resp = 0 /\ last = 0 /\ waits = <<>> /\ ret = 0
    /\ verdict = "nolookup"
    /\ fetched = 0
    /\ remote_pos = ""
    /\ calls = <<>>
    /\ nsleeps = 0
    /\ tags = <<>>
    /\ outcome = "NONE"
    /\ outcomes = <<>>
    /\ \E existing \in SignLists, l \in {S_en, S_ru}, e \in {None, S_a, S_b}, d \in BOOLEAN :
          m = [signs |-> existing, lang |-> l, email |-> e, text |-> S_new,
               make_default |-> d, applied |-> 0, first |-> existing, prev |-> existing]
    /\ o = NoOwns
    /\ r = NoRerun

\* signs = upsert_sign(signs, lang, email, text, make_default)
ApplyUpsert ==
    /\ pc = "merger"
    /\ m.applied < MaxApply
    /\ m' = [m EXCEPT !.signs = upsert_sign(m.signs, m.lang, m.email, m.text, m.make_default),
                      !.applied = @ + 1,
                      !.prev = m.signs]
    /\ UNCHANGED <<o, r, cfg, nrows, idx, pc, rowLocals, email_to_bind, body, transport,
                   verdict, fetched, remote_pos, calls, nsleeps, tags, outcome, outcomes>>

NextMerger == ApplyUpsert

SpecMerger == InitMerger /\ [][NextMerger]_vars

\* ================================================================= claims
RowRead == pc # "merger" /\ (pc # "loop" \/ idx > 1)
RowLeft == pc \in {"loop", "done"} /\ idx > 1
AllSpaces(str) == \A i \in 1..Len(str) : str[i] \in {9, 10, 13, 32}

\* C1: whatever status codes the remote side answers with, the run reaches
\* the end of the row list and every row has an outcome: no answered call
\* (ret is the status it returned) ends the run before the last row.
C1_BatchReachesEnd ==
    /\ ~(pc = "crashed" /\ ret # 0)
    /\ pc = "done" => Len(outcomes) = nrows /\ \A i \in 1..nrows : outcomes[i] # "NONE"

\* C2: for every row that has been left, time.sleep(interval) ran exactly once
\* for it, and it never runs before the row's outcome is determined.
C2_ThrottleOncePerRow ==
    /\ RowLeft => nsleeps = 1
    /\ outcome = "NONE" => nsleeps = 0

\* C3: one call of backoff_request makes between 1 and 6 attempts, makes a
\* further attempt only after a status in {429,500,502,503,504}, returns
\* without sleeping on the first status outside that set, returns the response
\* of the last attempt made, and returns (does not raise) after six retriable
\* answers.
C3_TransportAttempts ==
    /\ [](pc \in {"request", "backoff", "returned"} => attempt \in 1..6)
    /\ [](pc = "returned" =>
            /\ ret = resp
            /\ resp \notin {429, 500, 502, 503, 504} => Len(waits) = attempt - 1
            /\ resp \in {429, 500, 502, 503, 504} => attempt = 6)
    /\ [][attempt >= 1 /\ attempt' = attempt + 1 => resp \in {429, 500, 502, 503, 504}]_vars
    /\ [][pc = "request" /\ pc' = "returned" =>
            resp' \notin {429, 500, 502, 503, 504} /\ waits' = waits]_vars
    /\ [][pc = "backoff" /\ attempt = 6 => pc' = "returned" /\ ret' = resp]_vars

C3_Witness == pc = "returned" /\ attempt = 6 /\ ret = 503 /\ last = 503

\* C4: the k-th backoff wait of a call is min(30s, 0.5s * 2^(k-1)) and every
\* wait is followed by a further attempt, so a call that has returned slept
\* fewer times than it made attempts.
C4_SleepsOnlyBetweenAttempts ==
    /\ \A k \in 1..Len(waits) :
          waits[k] = IF 500 * (2 ^ (k - 1)) < 30000 THEN 500 * (2 ^ (k - 1)) ELSE 30000
    /\ pc = "returned" => Len(waits) < attempt

\* C5: with strict_email, a row with an email whose lookup answers 404 or a
\* user that does not own the email ends FAILED, and neither the settings
\* fetch nor the POST is issued for it.
C5_StrictEmailFails ==
    (cfg.strict_email /\ Truthy(csv_email) /\ verdict \in {"absent", "notowned"}) =>
        /\ pc \in {"throttle", "loop", "done"}
        /\ outcome = "FAILED"
        /\ calls = <<"get_user">>
        /\ body = NoBody
        /\ RowLeft => outcomes[idx - 1] = "FAILED"

C5_Witness ==
    /\ cfg.strict_email /\ cfg.merge /\ ~cfg.dry_run
    /\ verdict = "notowned" /\ RowLeft /\ outcome = "FAILED"

\* C6: in every computed body the record written for the row (the default
\* record of the row's lang) carries emails = [csv_email] exactly when the
\* lookup found a user owning the non-empty email, and carries no binding
\* otherwise; without strict_email an absent user or a non-owned email does
\* not end the row, which goes on to build its body.
WrittenIn(b) ==
    {i \in 1..Len(b.signs) :
        /\ LangIs(b.signs[i], lang)
        /\ Has(b.signs[i], "isDefault") /\ b.signs[i]["isDefault"]}

C6_BindingIffOwned ==
    /\ body # NoBody =>
          /\ Cardinality(WrittenIn(body)) = 1
          /\ \A i \in WrittenIn(body) :
                IF Truthy(csv_email) /\ verdict = "owned"
                THEN Has(body.signs[i], "emails") /\ body.signs[i]["emails"] = <<csv_email>>
                ELSE GetEmails(body.signs[i]) = <<>>
    /\ (~cfg.strict_email /\ verdict \in {"absent", "notowned"} /\ pc # "crashed") =>
          \/ pc = "build"
          \/ body # NoBody
          \/ cfg.merge /\ calls = <<"get_user", "get_sender_info">>

C6_Witness ==
    /\ ~cfg.strict_email /\ verdict = "notowned"
    /\ outcome = "OK" /\ "post" \in {calls[i] : i \in 1..Len(calls)}
    /\ \A i \in WrittenIn(body) : GetEmails(body.signs[i]) = <<>>

\* C7: a row whose userId or signature is empty after trimming is SKIPPED
\* and no network call is issued for it, whatever the configuration.
C7_SkipNoNetwork ==
    (RowRead /\ (AllSpaces(user_id) \/ AllSpaces(text))) =>
        /\ outcome = "SKIPPED"
        /\ calls = <<>>
        /\ call = "none" /\ attempt = 0
        /\ pc \in {"loop", "done"}
        /\ outcomes[idx - 1] = "SKIPPED"

C7_Witness ==
    /\ RowRead /\ outcome = "SKIPPED" /\ calls = <<>>
    /\ Truthy(csv_email) /\ Truthy(text) /\ cfg.merge /\ idx = 2

\* C10 as stated: in merge mode a settings fetch whose final status is neither
\* 200 nor 404 ends the row FAILED with no POST, and the run goes on.
C10_AnyOtherStatusFails ==
    (cfg.merge /\ fetched \notin {0, 200, 404}) =>
        /\ outcome = "FAILED"
        /\ "post" \notin {calls[i] : i \in 1..Len(calls)}
        /\ pc \in {"throttle", "loop", "done"}

\* C10 amended: in merge mode a settings fetch whose final status is a 4xx or
\* 5xx other than 404 ends the row FAILED with no POST, and the run goes on
\* to the next row.
C10_ErrorStatusFails ==
    (cfg.merge /\ fetched >= 400 /\ fetched < 600 /\ fetched # 404) =>
        /\ outcome = "FAILED"
        /\ calls[Len(calls)] = "get_sender_info"
        /\ "post" \notin {calls[i] : i \in 1..Len(calls)}
        /\ body = NoBody
        /\ pc \in {"throttle", "loop", "done"}
        /\ RowLeft => outcomes[idx - 1] = "FAILED"

C10_Witness ==
    /\ cfg.merge /\ ~cfg.dry_run /\ fetched = 503
    /\ RowLeft /\ idx = 2 /\ nrows = 2 /\ outcome = "FAILED"

\* ------------------------------------------------- claims about the merger
\* the binding of a stored record and the binding a call asks for, as sets
BindingOf(rec) == {GetEmails(rec)[i] : i \in 1..Len(GetEmails(rec))}
WantedBinding(email) == IF email = <<>> THEN {} ELSE {email}

\* indices of the records of a list that carry the pair (lang, binding)
WithPair(signs, l, email) ==
    {i \in 1..Len(signs) :
        /\ Has(signs[i], "lang") /\ signs[i]["lang"] = l
        /\ BindingOf(signs[i]) = WantedBinding(email)}

DefaultsOf(signs, l) ==
    {i \in 1..Len(signs) :
        /\ Has(signs[i], "lang") /\ signs[i]["lang"] = l
        /\ Has(signs[i], "isDefault") /\ signs[i]["isDefault"]}

\* where the call writes: the first record of the original list that carries
\* the pair, or one past its end
WrittenIdx ==
    LET hits == WithPair(m.first, m.lang, m.email)
    IN IF hits = {} THEN Len(m.first) + 1 ELSE CHOOSE i \in hits : \A j \in hits : i <= j

\* C8 as stated: after two applications with the same arguments, on any
\* existing list, exactly one record carries the pair (lang, binding).
C8_ExactlyOneAnyList ==
    (pc = "merger" /\ m.applied >= 2) =>
        Cardinality(WithPair(m.signs, m.lang, m.email)) = 1

\* C8 amended: on any existing list that holds at most one record carrying the
\* pair (lang, binding), two applications with the same arguments leave exactly
\* one record carrying the pair.
C8_ExactlyOneIfAtMostOne ==
    (pc = "merger" /\ m.applied >= 2
        /\ Cardinality(WithPair(m.first, m.lang, m.email)) <= 1) =>
        /\ Cardinality(WithPair(m.signs, m.lang, m.email)) = 1
        /\ WithPair(m.signs, m.lang, m.email) = {WrittenIdx}

C8_Witness ==
    /\ pc = "merger" /\ m.applied = 2
    /\ Len(m.first) = 2
    /\ WithPair(m.first, m.lang, m.email) = {}
    /\ Truthy(m.email)
    /\ Len(m.signs) = 3

\* C9: after an application with make_default, exactly one record of that
\* lang is default and it is the record the call wrote (matched or appended);
\* every other record of the lang is not default, whatever its binding.
C9_OneDefaultPerLang ==
    (pc = "merger" /\ m.applied >= 1 /\ m.make_default) =>
        /\ DefaultsOf(m.signs, m.lang) = {WrittenIdx}
        /\ m.signs[WrittenIdx]["text"] = m.text
        /\ BindingOf(m.signs[WrittenIdx]) = WantedBinding(m.email)

\* an en record bound to b, then an en row bound to a: two en records, only
\* the new one default
C9_Witness ==
    /\ pc = "merger" /\ m.applied = 1 /\ m.make_default
    /\ m.first = <<Sign(S_old, S_en, TRUE, <<S_b>>)>>
    /\ m.lang = S_en /\ m.email = S_a
    /\ Len(m.signs) = 2
    /\ ~m.signs[1]["isDefault"] /\ m.signs[2]["isDefault"]

\* ------------------------------------------------ claims about the row loop
Issued == {calls[i] : i \in 1..Len(calls)}

\* C11: an identity lookup whose final status is neither 200 nor 404 ends the
\* row FAILED, and the run goes on to throttle and the next row.
\* (call = "get_user" with ret set and pc past "returned": get_user has ended
\* on the status ret without returning a user or None to main)
C11_LookupErrorFailsRow ==
    (call = "get_user" /\ ret \notin {0, 200, 404} /\ pc # "returned") =>
        /\ outcome = "FAILED"
        /\ pc \in {"throttle", "loop", "done"}

\* C12: outside dry-run, when the POST returns, the row is OK exactly when the
\* returned status is 200 and FAILED for every other status; the outcome is
\* the one recorded for the row and the loop goes on to the next row.
C12_OkIffPost200 ==
    /\ [][(pc = "returned" /\ call = "post") =>
            /\ pc' = "throttle"
            /\ outcome' = IF ret = 200 THEN "OK" ELSE "FAILED"]_vars
    /\ [](outcome = "OK" => ~cfg.dry_run /\ Len(calls) > 0 /\ calls[Len(calls)] = "post")
    /\ []((RowLeft /\ outcome \in {"OK", "FAILED"}) => outcomes[idx - 1] = outcome)
    /\ [][pc = "throttle" => pc' = "loop" /\ idx' = idx + 1]_vars

C12_Witness ==
    /\ RowLeft /\ idx = 2 /\ nrows = 2
    /\ outcome = "FAILED" /\ Len(calls) > 0 /\ calls[Len(calls)] = "post"
    /\ outcomes = <<"FAILED">>

\* C13: with dry_run no POST is ever entered, for any row; a row that reaches
\* submit prints its body under the tag DRY instead, in replace and merge mode.
C13_DryRunNoPost ==
    /\ [](cfg.dry_run => call # "post" /\ "post" \notin Issued)
    /\ [][(cfg.dry_run /\ pc = "submit") =>
            /\ pc' = "throttle"
            /\ outcome' = "DRY"
            /\ tags' = Append(tags, "DRY")
            /\ body' = body]_vars

C13_Witness ==
    /\ cfg.dry_run /\ cfg.merge /\ RowLeft
    /\ outcome = "DRY" /\ tags = <<"DRY">>
    /\ calls = <<"get_user", "get_sender_info">>
    /\ Len(body.signs) = 2

\* C14: in replace mode no settings fetch is issued and the body is exactly
\* one record {text, lang, isDefault: true}, with emails: [email] when the
\* email was verified, under the configured position.
C14_ReplaceBodyShape ==
    (~cfg.merge /\ pc # "merger") =>
        /\ "get_sender_info" \notin Issued
        /\ fetched = 0
        /\ body # NoBody =>
              /\ DOMAIN body = {"signs", "signPosition"}
              /\ body.signPosition = cfg.position
              /\ body.signs =
                    << IF verdict = "owned"
                       THEN [text |-> normalize_signature(text, cfg.convert_newlines),
                             lang |-> lang, isDefault |-> TRUE, emails |-> <<csv_email>>]
                       ELSE [text |-> normalize_signature(text, cfg.convert_newlines),
                             lang |-> lang, isDefault |-> TRUE] >>

C14_Witness ==
    /\ ~cfg.merge /\ ~cfg.convert_newlines /\ cfg.position = "under"
    /\ verdict = "owned" /\ outcome = "OK" /\ lang = S_en
    /\ body = [signs |-> <<[text |-> text, lang |-> S_en, isDefault |-> TRUE,
                            emails |-> <<S_A>>]>>,
               signPosition |-> "under"]

\* C15: in merge mode the body's signPosition is the position the remote store
\* holds when it holds one, and the configured position when it holds none,
\* a 404 on the settings fetch included.
C15_MergePosition ==
    (cfg.merge /\ pc # "merger" /\ body # NoBody) =>
        body.signPosition = IF remote_pos # "" THEN remote_pos ELSE cfg.position

\* C16: a row prints exactly one tagged line: never a second line after a
\* FAIL or WARN line, and one line once the row is left.
C16_OneLinePerRow ==
    /\ Len(tags) <= 1
    /\ RowLeft => Len(tags) = 1 /\ outcome # "NONE"

\* C18: within a row the calls are issued in the order lookup, fetch, submit,
\* each at most once; the lookup exactly for a row that is not skipped and has
\* an email, the fetch only in merge mode, the submit only after the lookup
\* and the fetch the row needs have returned.
Rank(kind) == CASE kind = "get_user" -> 1 [] kind = "get_sender_info" -> 2 [] OTHER -> 3

C18_CallOrder ==
    pc # "merger" =>
        /\ \A i, j \in 1..Len(calls) : i < j => Rank(calls[i]) < Rank(calls[j])
        /\ call # "none" => calls[Len(calls)] = call
        /\ (RowRead /\ pc # "verify") =>
              ("get_user" \in Issued <=> (outcome # "SKIPPED" /\ Truthy(csv_email)))
        /\ pc = "verify" => Truthy(csv_email) /\ calls = <<>>
        /\ "get_sender_info" \in Issued =>
              /\ cfg.merge
              /\ Truthy(csv_email) => verdict # "nolookup"
        /\ "post" \in Issued =>
              /\ ~cfg.dry_run
              /\ body # NoBody
              /\ Truthy(csv_email) => verdict # "nolookup"
              /\ cfg.merge => "get_sender_info" \in Issued /\ fetched # 0

C18_Witness ==
    /\ calls = <<"get_user", "get_sender_info", "post">>
    /\ outcome = "OK" /\ RowLeft

\* --------------------------------------------- user_owns_email on its own
JAbsent == [t |-> "absent", v |-> <<>>]

\* a user card with the given values, a key being present unless JAbsent
MkUser(email, aliases, emails, alternate) ==
    LET val == [k \in {"email", "aliases", "emails", "alternateEmails"} |->
                  CASE k = "email"   -> email
                    [] k = "aliases" -> aliases
                    [] k = "emails"  -> emails
                    [] OTHER         -> alternate]
    IN [k \in {k \in DOMAIN val : val[k].t # "absent"} |-> val[k]]

OwnsPrimaries == {JAbsent, JNone, JStr(<<>>), JStr(S_a), JStr(<<32, 65, 32>>), JStr(S_b)}

OwnsAliases ==
    { JAbsent,
      JStr(S_a),
      JList(<<>>),
      JList(<<JStr(<<>>)>>),
      JList(<<JStr(<<32, 65>>)>>),
      JList(<<JStr(S_b), JDict([address |-> JStr(<<65, 32>>)])>>),
      JList(<<JDict([type |-> JStr(S_a)])>>),
      JList(<<JDict([address |-> JNone])>>) }

OwnsUsers ==
    {MkUser(p, a, e, x) : p \in OwnsPrimaries, a \in OwnsAliases,
                          e \in {JAbsent, JList(<<JDict([address |-> JStr(S_a)])>>)},
                          x \in {JAbsent, JList(<<JStr(S_A)>>)}}

OwnsCandidates == {<<>>, <<32>>, S_a, <<32, 65, 32>>, S_b, <<99>>}

InitOwns ==
    /\ cfg = [strict_email |-> FALSE, merge |-> TRUE, dry_run |-> FALSE,
              convert_newlines |-> FALSE, position |-> "bottom"]
    /\ nrows = 1
    /\ idx = 1
    /\ pc = "owns"
    /\ user_id = <<>> /\ csv_email = <<>> /\ text = <<>> /\ lang = <<>>
    /\ email_to_bind = None
    /\ body = NoBody
    /\ call = "none" /\ attempt = 0 /\ resp = 0 /\ last = 0 /\ waits = <<>> /\ ret = 0
    /\ verdict = "nolookup"
    /\ fetched = 0
    /\ remote_pos = ""
    /\ calls = <<>>
    /\ nsleeps = 0
    /\ tags = <<>>
    /\ outcome = "NONE"
    /\ outcomes = <<>>
    /\ m = NoMerger
    /\ r = NoRerun
    /\ \E user \in OwnsUsers, email \in OwnsCandidates :
          o = [user |-> user, email |-> email, result |-> FALSE, called |-> FALSE]

\* result = user_owns_email(user, email)
CallOwns ==
    /\ pc = "owns"
    /\ ~o.called
    /\ o' = [o EXCEPT !.result = user_owns_email(o.user, o.email), !.called = TRUE]
    /\ UNCHANGED <<m, r, cfg, nrows, idx, pc, rowLocals, email_to_bind, body, transport,
                   verdict, fetched, remote_pos, calls, nsleeps, tags, outcome, outcomes>>

NextOwns == CallOwns

SpecOwns == InitOwns /\ [][NextOwns]_vars

\* the addresses a user card claims, trimmed and lower-cased: the primary
\* email and the elements of the list-valued alias collections, an element
\* being a string or an object with an address
AddressesOf(user) ==
    LET keys == {k \in {"aliases", "emails", "alternateEmails"} :
                    k \in DOMAIN user /\ user[k].t = "list"}
        elems == UNION {{user[k].v[i] : i \in 1..Len(user[k].v)} : k \in keys}
    IN {Lower(Strip(user["email"].v)) : k \in {k \in {"email"} :
                                           k \in DOMAIN user /\ user[k].t = "str"}}
       \cup {Lower(Strip(e.v)) : e \in {e \in elems : e.t = "str"}}
       \cup {Lower(Strip(e.v["address"].v)) :
                e \in {e \in elems : /\ e.t = "dict"
                                     /\ "address" \in DOMAIN e.v
                                     /\ e.v["address"].t = "str"}}

\* C17: user_owns_email answers true exactly when the trimmed, lower-cased
\* candidate is non-empty and is one of the addresses the card claims; it is
\* false for an empty candidate and for a candidate that matches none of them,
\* alias objects without an address included.
C17_OwnsExactly ==
    (pc = "owns" /\ o.called) =>
        (o.result <=> (/\ Lower(Strip(o.email)) # <<>>
                       /\ Lower(Strip(o.email)) \in AddressesOf(o.user)))

\* ------------------------------------------------ the frame of upsert_sign
\* the target of the last application in the list it was applied to, 0 if none
LastTarget ==
    LET hits == WithPair(m.prev, m.lang, m.email)
    IN IF hits = {} THEN 0 ELSE CHOOSE i \in hits : \A j \in hits : i <= j

\* the keys the fresh record of the call carries
FreshKeys == {"text", "lang", "isDefault"} \cup (IF m.email = <<>> THEN {} ELSE {"emails"})

SameButDefault(a, b) ==
    /\ (DOMAIN a) \ {"isDefault"} = (DOMAIN b) \ {"isDefault"}
    /\ \A k \in (DOMAIN a) \ {"isDefault"} : a[k] = b[k]

\* C19: one application leaves records of other languages identical, changes
\* nothing but isDefault in the records of the lang that are not the target
\* (and nothing at all without make_default), keeps the order, keeps the length
\* when a target matched and appends the fresh record last when none did, and
\* keeps in the matched record every field the fresh record does not carry.
C19_UpsertFrame ==
    (pc = "merger" /\ m.applied >= 1) =>
        /\ Len(m.signs) = IF LastTarget = 0 THEN Len(m.prev) + 1 ELSE Len(m.prev)
        /\ \A i \in 1..Len(m.prev) :
              i # LastTarget =>
                 IF Has(m.prev[i], "lang") /\ m.prev[i]["lang"] = m.lang /\ m.make_default
                 THEN SameButDefault(m.signs[i], m.prev[i])
                 ELSE m.signs[i] = m.prev[i]
        /\ LastTarget = 0 =>
              /\ DOMAIN m.signs[Len(m.signs)] = FreshKeys
              /\ m.signs[Len(m.signs)]["text"] = m.text
              /\ m.signs[Len(m.signs)]["lang"] = m.lang
              /\ m.signs[Len(m.signs)]["isDefault"] = m.make_default
        /\ LastTarget # 0 =>
              /\ DOMAIN m.signs[LastTarget] = (DOMAIN m.prev[LastTarget]) \cup FreshKeys
              /\ \A k \in (DOMAIN m.prev[LastTarget]) \ FreshKeys :
                    m.signs[LastTarget][k] = m.prev[LastTarget][k]
              /\ m.signs[LastTarget]["text"] = m.text
              /\ m.signs[LastTarget]["isDefault"] = m.make_default

\* a matched record keeps its signId while another record of the lang loses
\* its default
C19_Witness ==
    /\ pc = "merger" /\ m.applied = 1 /\ m.make_default
    /\ Len(m.prev) = 2 /\ Len(m.signs) = 2
    /\ LastTarget = 1
    /\ Has(m.prev[1], "signId") /\ Has(m.signs[1], "signId")
    /\ m.signs[1]["text"] = S_new
    /\ m.prev[2]["lang"] = m.lang /\ m.prev[2]["isDefault"] /\ ~m.signs[2]["isDefault"]

\* ------------------------------- the same row run again on a remote store
\* The store answers the settings fetch with the document it holds (404 while
\* it holds none) and keeps the body of every POST it answers 200; the
\* directory gives the same answer to every lookup.
InitRerun ==
    /\ cfg \in {c \in Configs : ~c.dry_run}
    /\ nrows = 1
    /\ idx = 1
    /\ pc = "loop"
    /\ \E row \in Rows :
          /\ Truthy(Strip(row.userId)) /\ Truthy(Strip(row.signature))
          /\ user_id   = Strip(row.userId)
          /\ csv_email = Strip(row.email)
          /\ text      = Strip(row.signature)
          /\ lang      = RowLang(row.lang)
    /\ email_to_bind = None
    /\ body = NoBody
    /\ call = "none" /\ attempt = 0 /\ resp = 0 /\ last = 0 /\ waits = <<>> /\ ret = 0
    /\ verdict = "nolookup"
    /\ fetched = 0
    /\ remote_pos = ""
    /\ calls = <<>>
    /\ nsleeps = 0
    /\ tags = <<>>
    /\ outcome = "NONE"
    /\ outcomes = <<>>
    /\ m = NoMerger
    /\ o = NoOwns
    /\ \E stored \in BOOLEAN, doc \in SenderInfos, found \in BOOLEAN, user \in Users :
          r = [stored |-> stored, doc |-> IF stored THEN doc ELSE NoBody,
               identity |-> IF found THEN user ELSE [email |-> JNone], found |-> found,
               runs |-> 0, succeeded |-> FALSE, after1 |-> NoBody]

\* lines 202-214: the row is taken up (again)
RerunStart ==
    /\ pc = "loop"
    /\ r.runs < MaxRuns
    /\ r' = [r EXCEPT !.runs = @ + 1]
    /\ email_to_bind' = None
    /\ body' = NoBody
    /\ verdict' = "nolookup"
    /\ fetched' = 0
    /\ remote_pos' = ""
    /\ calls' = <<>>
    /\ nsleeps' = 0
    /\ tags' = <<>>
    /\ outcome' = "NONE"
    /\ pc' = IF Truthy(csv_email) THEN "verify" ELSE "build"
    /\ UNCHANGED <<cfg, nrows, m, o, idx, rowLocals, transport, outcomes>>

\* lines 215-234 with the directory's fixed answer
RerunVerify ==
    /\ pc = "verify"
    /\ calls' = Append(calls, "get_user")
    /\ IF r.found THEN UserFound(r.identity) ELSE UserAbsent
    /\ UNCHANGED <<config, idx, rowLocals, body, transport, fetched, remote_pos,
                   nsleeps, outcomes>>

\* lines 238-249 with the store's answer
RerunFetch ==
    /\ pc = "build"
    /\ cfg.merge
    /\ calls' = Append(calls, "get_sender_info")
    /\ fetched' = IF r.stored THEN 200 ELSE 404
    /\ body' = MergeBody(IF r.stored THEN r.doc ELSE NoSettings)
    /\ remote_pos' = IF r.stored /\ Has(r.doc, "signPosition") THEN r.doc["signPosition"] ELSE ""
    /\ pc' = "submit"
    /\ UNCHANGED <<config, idx, rowLocals, email_to_bind, transport, verdict, nsleeps,
                   tags, outcome, outcomes>>

\* lines 242-245: the fetch ends in an HTTP error
RerunFetchFails ==
    /\ pc = "build"
    /\ cfg.merge
    /\ calls' = Append(calls, "get_sender_info")
    /\ \E s \in {st \in Statuses : st # 404 /\ RaisesHTTPError(st)} : fetched' = s
    /\ tags' = Append(tags, "FAIL")
    /\ outcome' = "FAILED"
    /\ pc' = "throttle"
    /\ UNCHANGED <<config, idx, rowLocals, email_to_bind, body, transport, verdict,
                   remote_pos, nsleeps, outcomes>>

\* lines 260-264; the store keeps the body of a POST it answers 200
RerunPost ==
    /\ pc = "submit"
    /\ calls' = Append(calls, "post")
    /\ \E s \in Statuses :
          IF s = 200
          THEN /\ r' = [r EXCEPT !.stored = TRUE, !.doc = body, !.succeeded = TRUE,
                                 !.after1 = IF r.succeeded THEN @ ELSE body]
               /\ tags' = Append(tags, "OK")
               /\ outcome' = "OK"
          ELSE /\ r' = r
               /\ tags' = Append(tags, "FAIL")
               /\ outcome' = "FAILED"
    /\ pc' = "throttle"
    /\ UNCHANGED <<cfg, nrows, m, o, idx, rowLocals, email_to_bind, body, transport,
                   verdict, fetched, remote_pos, nsleeps, outcomes>>

\* line 266
RerunThrottle ==
    /\ pc = "throttle"
    /\ nsleeps' = nsleeps + 1
    /\ outcomes' = Append(outcomes, outcome)
    /\ pc' = "loop"
    /\ UNCHANGED <<config, idx, rowLocals, email_to_bind, body, transport,
                   verdict, fetched, remote_pos, calls, tags, outcome>>

NextRerun ==
    \/ RerunStart \/ RerunVerify \/ RerunFetch \/ RerunFetchFails
    \/ BuildReplace \/ RerunPost \/ RerunThrottle

SpecRerun == InitRerun /\ [][NextRerun]_vars

\* C20: once a run of the row has succeeded, every later run of the same row,
\* in merge or in replace mode, leaves the stored signature list and position
\* as they were after that first successful run.
C20_RerunIdempotent ==
    (r.succeeded /\ r.runs >= 1) =>
        /\ r.stored
        /\ r.doc.signs = r.after1.signs
        /\ r.doc.signPosition = r.after1.signPosition

C20_Witness ==
    /\ cfg.merge /\ r.runs = 2 /\ pc = "loop"
    /\ outcomes = <<"OK", "OK">>
    /\ verdict = "owned"
    /\ Len(r.doc.signs) = 2
    /\ r.doc = r.after1

====
